---- MODULE Spec2Model ----
(***************************************************************************)
(* Model of the struct-of-arrays decision tree of sklearn/tree/tree.py:    *)
(* class Tree (storage, build, pruning_order, prune, feature importances). *)
(*                                                                         *)
(* Arrays are sequences; the numpy row i is element i + 1.  A negative     *)
(* numpy index i addresses row i + capacity, as numpy does.                *)
(***************************************************************************)
EXTENDS Integers, Sequences, FiniteSets, TLC

(***************************************************************************)
(* Bounds of the model.                                                    *)
(***************************************************************************)
NSamples == 4       \* rows of the training matrix X
MaxErr == 1         \* errors returned by the split finder are 0..MaxErr
MaxNodes == 3       \* direct add calls are made while node_count < MaxNodes
Features == {0, 1}  \* columns of X
MaxDepths == {0, 1, 2}  \* values of max_depth passed to build
DeepDepths == {3}   \* max_depth of the deeper trees

(***************************************************************************)
(* Program constants.                                                      *)
(***************************************************************************)
LEAF == -1
UNDEFINED == -2
DefaultCapacity == 3
FixedCapacity == 2047
CompleteTreeDepth == 10

NoneVal == "None"

Samples == 1..NSamples
NFeatures == Cardinality(Features)
Errors == 0..MaxErr
\* np.empty leaves the cells of threshold, value, best_error, init_error and
\* n_samples uninitialised.  No operation of Tree reads such a cell before
\* writing it (they are only copied, resized away, or overwritten by the
\* add operations), so one marker stands for whatever the allocator left.
Uninit == 7
\* min_density in [0, 1], as twice its value: 0, 1/2, 1
MinDensity2Vals == {0, 1, 2}
MinSamplesSplitVals == {1, 3}
MinSamplesLeafVals == {1, 2}
Methods == {"gini", "squared", "mse"}

(***************************************************************************)
(* Training data.  Column 0 separates every sample, column 1 has ties and  *)
(* orders the samples differently.  y holds two classes.                   *)
(***************************************************************************)
XVal(i, f) == IF f = 0 THEN i ELSE 1 + ((i + 1) % 2)
YVal(i) == i % 2
Thresholds == 0..NSamples

Min(a, b) == IF a <= b THEN a ELSE b

Pow2(n) == IF n <= 0 THEN 1 ELSE 2 ^ n

----------------------------------------------------------------------------
(***************************************************************************)
(* Tree storage.                                                           *)
(***************************************************************************)
Capacity(t) == Len(t.children)

\* numpy index normalisation: a negative index counts from the end
PyIdx(i, n) == IF i < 0 THEN i + n ELSE i

Fill(n, v) == [j \in 1..n |-> v]

\* Tree.__init__
NewTree(capacity) ==
    [ node_count |-> 0,
      children   |-> Fill(capacity, <<UNDEFINED, UNDEFINED>>),
      feature    |-> Fill(capacity, UNDEFINED),
      threshold  |-> Fill(capacity, Uninit),
      value      |-> Fill(capacity, Uninit),
      best_error |-> Fill(capacity, Uninit),
      init_error |-> Fill(capacity, Uninit),
      n_samples  |-> Fill(capacity, Uninit) ]

\* ndarray.resize(refcheck=False): keeps the leading entries, zero-fills
ResizeArr(s, capacity, zero) ==
    [j \in 1..capacity |-> IF j <= Len(s) THEN s[j] ELSE zero]

\* Tree._resize with an explicit capacity
ResizeTo(t, capacity) ==
    IF capacity = Capacity(t) THEN t
    ELSE [ node_count |-> IF capacity < t.node_count THEN capacity
                                                     ELSE t.node_count,
           children   |-> ResizeArr(t.children, capacity, <<0, 0>>),
           feature    |-> ResizeArr(t.feature, capacity, 0),
           threshold  |-> ResizeArr(t.threshold, capacity, 0),
           value      |-> ResizeArr(t.value, capacity, 0),
           best_error |-> ResizeArr(t.best_error, capacity, 0),
           init_error |-> ResizeArr(t.init_error, capacity, 0),
           n_samples  |-> ResizeArr(t.n_samples, capacity, 0) ]

\* Tree._resize(None): double the capacity
ResizeDouble(t) == ResizeTo(t, Capacity(t) * 2)

\* "if capacity < self.node_count": the resize lowers node_count
Truncates(t, capacity) == capacity < t.node_count

\* "if node_id >= self.children.shape[0]" of the add operations
NeedsResize(t) == t.node_count >= Capacity(t)

\* children[parent, side] = node_id
SetChild(children, parent, is_left_child, node_id) ==
    LET r == PyIdx(parent, Len(children)) + 1
    IN  [children EXCEPT ![r] = IF is_left_child THEN <<node_id, @[2]>>
                                                 ELSE <<@[1], node_id>>]

\* Tree._add_split_node
AddSplitNode(t, parent, is_left_child, feature, threshold, best_error, init_error, n_samples, value) ==
    LET node_id == t.node_count
        t1 == IF NeedsResize(t) THEN ResizeDouble(t) ELSE t
        r  == node_id + 1
    IN  [ t1 EXCEPT !.feature[r]    = feature,
                    !.threshold[r]  = threshold,
                    !.init_error[r] = init_error,
                    !.best_error[r] = best_error,
                    !.n_samples[r]  = n_samples,
                    !.value[r]      = value,
                    !.children      = IF parent > LEAF
                                      THEN SetChild(@, parent, is_left_child,
                                                    node_id)
                                      ELSE @,
                    !.node_count    = @ + 1 ]

\* _add_leaf registering the new node as the left child whatever
\* is_left_child says
AddLeafLeftOnly(t, parent, is_left_child, value, error, n_samples) ==
    LET node_id == t.node_count
        t1 == IF NeedsResize(t) THEN ResizeDouble(t) ELSE t
        r  == node_id + 1
        linked == SetChild(t1.children, parent, TRUE, node_id)
    IN  [ t1 EXCEPT !.value[r]      = value,
                    !.n_samples[r]  = n_samples,
                    !.init_error[r] = error,
                    !.best_error[r] = error,
                    !.children      = [linked EXCEPT ![r] = <<LEAF, LEAF>>],
                    !.node_count    = @ + 1 ]

\* Tree._add_leaf
AddLeaf(t, parent, is_left_child, value, error, n_samples) ==
    LET node_id == t.node_count
        t1 == IF NeedsResize(t) THEN ResizeDouble(t) ELSE t
        r  == node_id + 1
        linked == SetChild(t1.children, parent, is_left_child, node_id)
    IN  [ t1 EXCEPT !.value[r]      = value,
                    !.n_samples[r]  = n_samples,
                    !.init_error[r] = error,
                    !.best_error[r] = error,
                    !.children      = [linked EXCEPT ![r] = <<LEAF, LEAF>>],
                    !.node_count    = @ + 1 ]

\* Tree._get_leaves: rows whose two children both equal LEAF
GetLeaves(children) ==
    {i \in 0..(Len(children) - 1) : children[i + 1] = <<LEAF, LEAF>>}

----------------------------------------------------------------------------
(***************************************************************************)
(* State.                                                                  *)
(***************************************************************************)
VARIABLES
    tree,           \* the Tree object the operations are called on
    has_n_outputs,  \* whether the object has an attribute n_outputs
    pc,             \* where the caller is
    args,           \* arguments of the running build call
    finder,         \* the find_split passed to build, when it is a fixed one
    stack,          \* pending recursive_partition calls, innermost first
    node_info,      \* per node, in creation order: depth and whether
                    \* find_split was called for it (history)
    before,         \* the tree as it was when the last operation that
                    \* changes it was called (history)
    doubled,        \* whether the last add operation called _resize()
                    \* (history)
    truncated,      \* whether a _resize call lowered node_count (history)
    children,       \* pruning_order: working copy of the children array
    nodes,          \* pruning_order: nodes selected so far
    max_to_prune,   \* pruning_order: its argument
    caller,         \* who called pruning_order: "prune" or "client"
    n_leaves,       \* prune: its argument
    out_tree,       \* the tree returned by prune, NoneVal before
    out_shared,     \* arrays of out_tree that are the same objects as tree's
    importances,    \* result of compute_feature_importances, NoneVal before
    method,         \* its method argument
    ret,            \* value returned by the last _add_split_node / _add_leaf
    call,           \* arguments of the last direct call on the storage
    x_row,          \* predict: the input row
    at_node,        \* predict: the node the traversal is at
    y_out,          \* predict: the output for the row
    path_i,         \* prune_path: the loop variable i
    scores,         \* prune_path: per score taken, the leaf count of the
                    \* estimator's tree at that moment
    est,            \* the estimator's fitted attributes
    est_call        \* the last call made on the estimator

vars == << tree, has_n_outputs, pc, args, finder, stack, node_info, before,
           doubled, truncated, children, nodes, max_to_prune, caller,
           n_leaves, out_tree, out_shared, importances, method, ret, call,
           x_row, at_node, y_out, path_i, scores, est, est_call >>

buildVars == << args, finder, stack, node_info, before >>
histVars == << doubled, truncated >>
pruneVars == << children, nodes, max_to_prune, caller, n_leaves, out_tree,
                out_shared >>
impVars == << importances, method >>
storeVars == << ret, call >>
predVars == << x_row, at_node, y_out >>
pathVars == << path_i, scores >>
estVars == << est, est_call >>
auxVars == << storeVars, predVars, pathVars, estVars >>

----------------------------------------------------------------------------
(***************************************************************************)
(* Criterion (the _tree extension): value and error of a set of samples.   *)
(***************************************************************************)
Masked(mask) == {j \in 1..Len(mask) : mask[j]}

\* sample_mask.sum()
CountMask(mask) == Cardinality(Masked(mask))

\* criterion.init_value(): the class histogram, given by its class-1 count
InitValue(rows, mask) ==
    Cardinality({j \in Masked(mask) : YVal(rows[j]) = 1})

\* _tree._error_at_leaf: the error of predicting the majority class
ErrorAtLeaf(rows, mask) ==
    Min(InitValue(rows, mask), CountMask(mask) - InitValue(rows, mask))

\* fixed find_split functions: each splits on one feature, below the lowest
\* or below the highest value the selected samples have in it
DetFinders == [ feature : Features, low : BOOLEAN ]

\* the samples a call of recursive_partition works on
Selected(rows, mask) == {rows[j] : j \in Masked(mask)}

\* misclassified samples when S is labelled with its majority class
ErrorOf(S) ==
    Min(Cardinality({i \in S : YVal(i) = 1}),
        Cardinality({i \in S : YVal(i) # 1}))

\* what the fixed find_split fs returns for the selected samples S
DetFinder(fs, S) ==
    LET vals == {XVal(i, fs.feature) : i \in S}
        lo   == CHOOSE v \in vals : \A w \in vals : v <= w
        hi   == CHOOSE v \in vals : \A w \in vals : w <= v
        th   == IF fs.low THEN lo ELSE hi - 1
        left == {i \in S : XVal(i, fs.feature) <= th}
    IN  IF lo = hi
        THEN [ feature |-> -1, threshold |-> 0, best_error |-> ErrorOf(S),
               init_error |-> ErrorOf(S) ]
        ELSE [ feature |-> fs.feature, threshold |-> th,
               best_error |-> ErrorOf(left) + ErrorOf(S \ left),
               init_error |-> ErrorOf(S) ]

\* find_split is an argument of build: any callable.  It returns
\* (feature, threshold, best_error, init_error), feature -1 for "no split".
FinderResults ==
    { [feature |-> f, threshold |-> th, best_error |-> b, init_error |-> e] :
        f \in Features, th \in Thresholds, b \in Errors, e \in Errors }
FinderSplits == {r \in FinderResults : r.best_error <= r.init_error}
FinderNoSplit ==
    { [feature |-> -1, threshold |-> 0, best_error |-> e, init_error |-> e] :
        e \in Errors }

----------------------------------------------------------------------------
(***************************************************************************)
(* Tree.build                                                              *)
(***************************************************************************)
\* the sample masks tried: every sample (also what sample_mask=None
\* gives), no sample, and a mask with a hole
SampleMasks ==
    { [j \in Samples |-> TRUE], [j \in Samples |-> FALSE],
      [j \in Samples |-> j # 3] }

BuildArgs ==
    [ max_depth         : MaxDepths,
      min_samples_split : MinSamplesSplitVals,
      min_samples_leaf  : MinSamplesLeafVals,
      min_density2      : MinDensity2Vals,
      sample_mask       : SampleMasks ]

\* the arguments used to grow the trees that are then pruned: only
\* max_depth and find_split limit the growth
PlainArgs ==
    [ max_depth         : MaxDepths,
      min_samples_split : {1},
      min_samples_leaf  : {1},
      min_density2      : {0},
      sample_mask       : {[j \in Samples |-> TRUE]} ]

\* the arguments used to grow trees in which a split node can have a split
\* node below a split node on its left
DeepArgs ==
    [ max_depth         : DeepDepths,
      min_samples_split : {1},
      min_samples_leaf  : {1},
      min_density2      : {0},
      sample_mask       : {[j \in Samples |-> TRUE]} ]

\* max_depth = np.inf, which fit passes when max_depth is None: above every
\* depth a node can have and above the depth of the complete-tree
\* pre-allocation
InfDepth == CompleteTreeDepth + NSamples

\* the arguments of the builds whose end is checked: bounded and unbounded
\* depth, a root mask with at least one sample
EndArgs ==
    [ max_depth         : {2, InfDepth},
      min_samples_split : {1},
      min_samples_leaf  : MinSamplesLeafVals,
      min_density2      : {0, 2},
      sample_mask       : {m \in SampleMasks : \E j \in Samples : m[j]} ]

\* the pre-allocation one level short: room for 2^max_depth nodes
InitCapacityHalf(max_depth) ==
    IF max_depth <= CompleteTreeDepth THEN Pow2(max_depth)
                                      ELSE FixedCapacity

\* the pre-allocated capacity
InitCapacity(max_depth) ==
    IF max_depth <= CompleteTreeDepth THEN Pow2(max_depth + 1) - 1
                                      ELSE FixedCapacity

\* the repacking leaving X as it is
CompressKeepAll(rows, mask) == rows

\* X[sample_mask]: the selected rows, in order
RECURSIVE Compress(_, _)
Compress(rows, mask) ==
    IF rows = <<>> THEN <<>>
    ELSE (IF Head(mask) THEN <<Head(rows)>> ELSE <<>>)
         \o Compress(Tail(rows), Tail(mask))

\* the stopping rule with the depth test off by one
MaySplitDepthOff(depth, n) ==
    /\ depth <= args.max_depth
    /\ n >= args.min_samples_split
    /\ n >= 2 * args.min_samples_leaf

\* the stopping rule of recursive_partition, for build arguments a
MaySplitWith(a, depth, n) ==
    /\ depth < a.max_depth
    /\ n >= a.min_samples_split
    /\ n >= 2 * a.min_samples_leaf

\* the stopping rule of recursive_partition in the running build
MaySplit(depth, n) == MaySplitWith(args, depth, n)

\* n_node_samples / X.shape[0] <= min_density
TooSparse(a, n, rows) == 2 * n <= a.min_density2 * Len(rows)

\* the right recursive call receiving the whole mask of its parent
ChildFramesRightAll(a, fr, res, node_id) ==
    LET split == [j \in 1..Len(fr.rows) |->
                     XVal(fr.rows[j], res.feature) <= res.threshold]
    IN  << [ rows |-> fr.rows,
             mask |-> [j \in 1..Len(fr.rows) |-> split[j] /\ fr.mask[j]],
             depth |-> fr.depth + 1, parent |-> node_id,
             is_left_child |-> TRUE ],
           [ rows |-> fr.rows, mask |-> fr.mask,
             depth |-> fr.depth + 1, parent |-> node_id,
             is_left_child |-> FALSE ] >>

\* the two recursive calls of a split node, left first
ChildFramesWith(a, fr, res, node_id) ==
    LET n     == CountMask(fr.mask)
        pack  == TooSparse(a, n, fr.rows)
        rows  == IF pack THEN Compress(fr.rows, fr.mask) ELSE fr.rows
        mask  == IF pack THEN [j \in 1..Len(rows) |-> TRUE] ELSE fr.mask
        split == [j \in 1..Len(rows) |->
                     XVal(rows[j], res.feature) <= res.threshold]
    IN  << [ rows |-> rows,
             mask |-> [j \in 1..Len(rows) |-> split[j] /\ mask[j]],
             depth |-> fr.depth + 1, parent |-> node_id,
             is_left_child |-> TRUE ],
           [ rows |-> rows,
             mask |-> [j \in 1..Len(rows) |-> ~split[j] /\ mask[j]],
             depth |-> fr.depth + 1, parent |-> node_id,
             is_left_child |-> FALSE ] >>

\* one call of recursive_partition up to its recursive calls, given what
\* find_split (or the leaf branch) produced
PartitionTree(t, fr, res) ==
    LET n     == CountMask(fr.mask)
        value == InitValue(fr.rows, fr.mask)
    IN  IF res.feature = -1
        THEN AddLeaf(t, fr.parent, fr.is_left_child, value,
                     res.init_error, n)
        ELSE AddSplitNode(t, fr.parent, fr.is_left_child, res.feature,
                          res.threshold, res.best_error, res.init_error,
                          n, value)

ChildFrames(fr, res, node_id) == ChildFramesWith(args, fr, res, node_id)

\* the pending calls after one call of recursive_partition
PartitionStackWith(a, t, fr, res, rest) ==
    IF res.feature = -1 THEN rest
    ELSE ChildFramesWith(a, fr, res, t.node_count) \o rest

PartitionStack(t, fr, res, rest) ==
    PartitionStackWith(args, t, fr, res, rest)

\* the capacity of the final _resize, one short
CompactCapacityShort(t) == t.node_count - 1

\* the capacity build passes to the final _resize
CompactCapacity(t) == t.node_count

\* build returns once the outermost recursive_partition has returned:
\* it compacts the arrays to node_count
Compactify(t) == ResizeTo(t, CompactCapacity(t))

Partition(fr, res, consulted) ==
    LET t1  == PartitionTree(tree, fr, res)
        st1 == PartitionStack(tree, fr, res, Tail(stack))
    IN  /\ stack' = st1
        /\ node_info' = Append(node_info,
                               [depth |-> fr.depth, consulted |-> consulted])
        /\ doubled' = NeedsResize(tree)
        /\ IF st1 = <<>>
           THEN /\ tree' = Compactify(t1)
                /\ truncated' = (truncated
                                  \/ Truncates(t1, CompactCapacity(t1)))
                /\ pc' = "built"
           ELSE /\ tree' = t1
                /\ truncated' = truncated
                /\ pc' = "building"
        /\ UNCHANGED << has_n_outputs, auxVars, args, finder, before,
                        pruneVars, impVars >>

\* the first call of recursive_partition
RootFrame(a) ==
    [ rows |-> [j \in 1..NSamples |-> j],
      mask |-> [j \in 1..NSamples |-> a.sample_mask[j]],
      depth |-> 0, parent |-> -1, is_left_child |-> FALSE ]

\* build(...) up to the first call of recursive_partition, with arguments
\* from A and a find_split from F
BuildWithFinder(A, F) ==
    /\ pc = "new"
    /\ \E a \in A, fs \in F :
        /\ args' = a
        /\ finder' = fs
        /\ before' = tree
        /\ tree' = ResizeTo(tree, InitCapacity(a.max_depth))
        /\ truncated' = (truncated
                          \/ Truncates(tree, InitCapacity(a.max_depth)))
        /\ stack' = << RootFrame(a) >>
    /\ pc' = "building"
    /\ UNCHANGED << has_n_outputs, doubled, auxVars, node_info, pruneVars,
                    impVars >>

\* build with any find_split: what it returns is chosen at each call
BuildWith(A) == BuildWithFinder(A, {NoneVal})

\* build with one of the fixed find_split functions
BuildDet == BuildWithFinder(BuildArgs, DetFinders)

BuildCall == BuildWith(BuildArgs)
BuildPlain == BuildWith(PlainArgs)
BuildDeep == BuildWith(DeepArgs)
BuildEnd == BuildWith(EndArgs)

\* recursive_partition reached with an empty sample mask: ValueError,
\* which leaves build through every pending call
PartitionEmpty ==
    /\ pc = "building" /\ stack # <<>>
    /\ CountMask(Head(stack).mask) = 0
    /\ pc' = "build_error"
    /\ stack' = <<>>
    /\ UNCHANGED << tree, has_n_outputs, histVars, auxVars, args, finder,
                    node_info, before, pruneVars, impVars >>

\* the stopping rule makes the node a leaf; find_split is not called
PartitionLeaf ==
    /\ pc = "building" /\ stack # <<>>
    /\ LET fr == Head(stack)
           n  == CountMask(fr.mask)
       IN  /\ n # 0
           /\ ~MaySplit(fr.depth, n)
           /\ Partition(fr, [ feature |-> -1, threshold |-> 0,
                              best_error |-> ErrorAtLeaf(fr.rows, fr.mask),
                              init_error |-> ErrorAtLeaf(fr.rows, fr.mask) ],
                        FALSE)

\* find_split is called; it returns a split or feature -1
PartitionSplit ==
    /\ pc = "building" /\ stack # <<>>
    /\ LET fr == Head(stack)
           n  == CountMask(fr.mask)
       IN  /\ n # 0
           /\ MaySplit(fr.depth, n)
           /\ \E res \in FinderSplits \cup FinderNoSplit :
                 Partition(fr, res, TRUE)

\* find_split returned res for the call fr and left at least
\* min_samples_leaf samples on each side of the split
LeavesEnough(a, fr, res) ==
    LET S    == Selected(fr.rows, fr.mask)
        left == {i \in S : XVal(i, res.feature) <= res.threshold}
    IN  res.feature # -1 =>
            /\ Cardinality(left) >= a.min_samples_leaf
            /\ Cardinality(S \ left) >= a.min_samples_leaf

\* find_split is called and is one that leaves enough samples on each side
PartitionSplitEnough ==
    /\ pc = "building" /\ stack # <<>>
    /\ LET fr == Head(stack)
           n  == CountMask(fr.mask)
       IN  /\ n # 0
           /\ MaySplit(fr.depth, n)
           /\ \E res \in FinderSplits \cup FinderNoSplit :
                 /\ LeavesEnough(args, fr, res)
                 /\ Partition(fr, res, TRUE)

\* find_split is the fixed function chosen at the call of build
PartitionSplitDet ==
    /\ pc = "building" /\ stack # <<>>
    /\ LET fr == Head(stack)
           n  == CountMask(fr.mask)
       IN  /\ n # 0
           /\ MaySplit(fr.depth, n)
           /\ Partition(fr, DetFinder(finder, Selected(fr.rows, fr.mask)),
                        TRUE)

----------------------------------------------------------------------------
(***************************************************************************)
(* Tree.pruning_order                                                      *)
(***************************************************************************)
\* _get_terminal_nodes with np.any in place of np.all: one leaf child is
\* enough
TerminalNodesAny(ch) ==
    LET leaves == GetLeaves(ch)
    IN  {i \in 0..(Len(ch) - 1) :
            ch[i + 1][1] \in leaves \/ ch[i + 1][2] \in leaves}

\* _get_terminal_nodes: rows whose two entries are both indices of leaves
TerminalNodes(ch) ==
    LET leaves == GetLeaves(ch)
    IN  {i \in 0..(Len(ch) - 1) :
            ch[i + 1][1] \in leaves /\ ch[i + 1][2] \in leaves}

\* the weakest-link score of a node
Score(t, i) == t.init_error[i + 1] - t.best_error[i + 1]

\* _next_to_prune taking the last minimum instead of the first
NextToPruneLastMin(t, ch) ==
    LET t_nodes == TerminalNodes(ch)
    IN  CHOOSE n \in t_nodes :
            \A m \in t_nodes :
                \/ Score(t, n) < Score(t, m)
                \/ Score(t, n) = Score(t, m) /\ n >= m

\* _next_to_prune: t_nodes[np.argmin(g_i)], the first minimum
NextToPrune(t, ch) ==
    LET t_nodes == TerminalNodes(ch)
    IN  CHOOSE n \in t_nodes :
            \A m \in t_nodes :
                \/ Score(t, n) < Score(t, m)
                \/ Score(t, n) = Score(t, m) /\ n <= m

\* the collapse without "children[children[node], :] = UNDEFINED"
CollapseKeepKids(ch, node) == [ch EXCEPT ![node + 1] = <<LEAF, LEAF>>]

\* children[children[node], :] = UNDEFINED ; children[node, :] = LEAF
Collapse(ch, node) ==
    LET kids == { PyIdx(ch[node + 1][1], Len(ch)) + 1,
                  PyIdx(ch[node + 1][2], Len(ch)) + 1 }
        cut  == [j \in 1..Len(ch) |->
                    IF j \in kids THEN <<UNDEFINED, UNDEFINED>> ELSE ch[j]]
    IN  [cut EXCEPT ![node + 1] = <<LEAF, LEAF>>]

\* the loop of pruning_order stops here
OrderDone(selected, m) == Len(selected) = m \/ selected[Len(selected)] = 0

\* pruning_order(max_to_prune) called on the tree
PruningOrderCall ==
    /\ pc = "built"
    /\ \E given \in BOOLEAN, m \in 0..tree.node_count :
          \* max_to_prune is None: all the nodes
          max_to_prune' = IF given THEN m ELSE tree.node_count
    /\ children' = tree.children
    /\ nodes' = <<>>
    /\ caller' = "client"
    /\ pc' = "ordering"
    /\ UNCHANGED << tree, has_n_outputs, histVars, auxVars, buildVars,
                    n_leaves, out_tree, out_shared, impVars >>

\* the number of nodes prune asks pruning_order for
ToRemoveCount(t, k) ==
    t.node_count - Cardinality(GetLeaves(t.children)) - k + 1

\* prune(n_leaves) up to the loop of pruning_order
PruneCall ==
    /\ pc = "built"
    /\ \E k \in 1..Cardinality(GetLeaves(tree.children)) :
          /\ n_leaves' = k
          /\ max_to_prune' = ToRemoveCount(tree, k)
    /\ children' = tree.children
    /\ nodes' = <<>>
    /\ caller' = "prune"
    /\ pc' = "ordering"
    /\ UNCHANGED << tree, has_n_outputs, histVars, auxVars, buildVars,
                    out_tree, out_shared, impVars >>

\* np.argmin of an empty array: ValueError
OrderEmpty ==
    /\ pc = "ordering"
    /\ TerminalNodes(children) = {}
    /\ pc' = "order_error"
    /\ UNCHANGED << tree, has_n_outputs, histVars, auxVars, buildVars,
                    pruneVars, impVars >>

\* one iteration that does not return: the subtree is removed
OrderSelect ==
    /\ pc = "ordering"
    /\ TerminalNodes(children) # {}
    /\ LET node == NextToPrune(tree, children)
       IN  /\ ~OrderDone(Append(nodes, node), max_to_prune)
           /\ nodes' = Append(nodes, node)
           /\ children' = Collapse(children, node)
    /\ UNCHANGED << tree, has_n_outputs, histVars, auxVars, pc, buildVars,
                    max_to_prune, caller, n_leaves, out_tree, out_shared,
                    impVars >>

\* the iteration that returns np.array(nodes)
OrderReturn ==
    /\ pc = "ordering"
    /\ TerminalNodes(children) # {}
    /\ LET node == NextToPrune(tree, children)
       IN  /\ OrderDone(Append(nodes, node), max_to_prune)
           /\ nodes' = Append(nodes, node)
    /\ pc' = IF caller = "prune" THEN "copying" ELSE "ordered"
    /\ UNCHANGED << tree, has_n_outputs, histVars, auxVars, buildVars,
                    children, max_to_prune, caller, n_leaves, out_tree,
                    out_shared, impVars >>

----------------------------------------------------------------------------
(***************************************************************************)
(* Tree.prune                                                              *)
(***************************************************************************)
ArrayNames == { "children", "feature", "threshold", "value", "best_error",
                "init_error", "n_samples" }

\* _copy assigning self.children without .copy()
CopySharedChildren == {"children"}

\* Tree._copy: every array is copied, none is shared with the original
CopyShared == {}
Copy(t) == t

\* the loop of prune collapsing the root, whatever nodes were selected
RemoveBranchesRoot(t, selected) ==
    IF selected = <<>> THEN t
    ELSE [t EXCEPT !.children = Collapse(@, 0),
                   !.node_count = @ - 2 * Len(selected)]

\* the loop of prune over nodes_to_remove
RECURSIVE RemoveBranches(_, _)
RemoveBranches(t, selected) ==
    IF selected = <<>> THEN t
    ELSE RemoveBranches(
             [t EXCEPT !.children = Collapse(@, Head(selected)),
                       !.node_count = @ - 2],
             Tail(selected))

\* _copy reads self.n_outputs, which Tree.__init__ never sets:
\* AttributeError unless the caller has set the attribute on the object
PruneCopyFails ==
    /\ pc = "copying"
    /\ ~has_n_outputs
    /\ pc' = "prune_error"
    /\ UNCHANGED << tree, has_n_outputs, histVars, auxVars, buildVars,
                    pruneVars, impVars >>

\* the rest of prune: copy, remove the branches, return the copy
PruneReturn ==
    /\ pc = "copying"
    /\ has_n_outputs
    /\ LET out == RemoveBranches(Copy(tree), nodes)
       IN  /\ out_tree' = out
           /\ out_shared' = CopyShared
           /\ tree' = IF "children" \in CopyShared
                      THEN [tree EXCEPT !.children = out.children]
                      ELSE tree
    /\ pc' = "pruned"
    /\ UNCHANGED << has_n_outputs, histVars, auxVars, buildVars, children,
                    nodes, max_to_prune, caller, n_leaves, impVars >>

\* prune(j) called on the tree a first prune(k) returned, k below the leaf
\* count of the built tree and j <= k.  The returned tree is a Tree made by
\* _copy: it has the attribute n_outputs only if the caller sets it.
PruneAgainCall ==
    /\ pc = "pruned"
    /\ before.node_count = 0
    /\ n_leaves < Cardinality(GetLeaves(tree.children))
    /\ \E j \in 1..n_leaves, set_by_caller \in BOOLEAN :
          /\ n_leaves' = j
          /\ max_to_prune' = ToRemoveCount(out_tree, j)
          /\ has_n_outputs' = set_by_caller
    /\ before' = tree
    /\ tree' = out_tree
    /\ children' = out_tree.children
    /\ nodes' = <<>>
    /\ caller' = "prune"
    /\ pc' = "ordering"
    /\ UNCHANGED << histVars, auxVars, args, finder, stack, node_info,
                    out_tree, out_shared, impVars >>

----------------------------------------------------------------------------
(***************************************************************************)
(* Tree.compute_feature_importances                                        *)
(***************************************************************************)
\* the contribution with the two errors of "gini" swapped
ContributionSwapped(t, m, node) ==
    IF m = "gini"
    THEN t.n_samples[node + 1] * (t.best_error[node + 1] - t.init_error[node + 1])
    ELSE (t.init_error[node + 1] - t.best_error[node + 1])
         * (t.init_error[node + 1] - t.best_error[node + 1])

\* the contribution of a node under a method
Contribution(t, m, node) ==
    IF m = "gini"
    THEN t.n_samples[node + 1] * (t.init_error[node + 1] - t.best_error[node + 1])
    ELSE (t.init_error[node + 1] - t.best_error[node + 1])
         * (t.init_error[node + 1] - t.best_error[node + 1])

\* the nodes the loop does not skip
Counted(t) ==
    {node \in 0..(t.node_count - 1) : t.children[node + 1] # <<LEAF, LEAF>>}

RECURSIVE SumOver(_, _, _)
SumOver(t, m, S) ==
    IF S = {} THEN 0
    ELSE LET node == CHOOSE x \in S : TRUE
         IN  Contribution(t, m, node) + SumOver(t, m, S \ {node})

\* importances before normalisation, indexed by feature
RawImportances(t, m) ==
    [f \in Features |->
        SumOver(t, m, {node \in Counted(t) :
                          PyIdx(t.feature[node + 1], NFeatures) = f})]

\* np.sum(importances)
Normalizer(t, m) == SumOver(t, m, Counted(t))

\* the returned vector: entry f is num[f] / den
ComputeFeatureImportances(t, m) ==
    [ num |-> RawImportances(t, m),
      den |-> IF Normalizer(t, m) > 0 THEN Normalizer(t, m) ELSE 1 ]

ImportancesCall ==
    /\ pc = "built"
    /\ \E m \in {"gini", "squared"} :
          /\ method' = m
          /\ importances' = ComputeFeatureImportances(tree, m)
    /\ pc' = "importances"
    /\ UNCHANGED << tree, has_n_outputs, histVars, auxVars, buildVars,
                    pruneVars >>

\* compute_feature_importances called on the tree prune returned
ImportancesPruned ==
    /\ pc = "pruned"
    /\ \E m \in {"gini", "squared"} :
          /\ method' = m
          /\ importances' = ComputeFeatureImportances(out_tree, m)
    /\ pc' = "importances_pruned"
    /\ UNCHANGED << tree, has_n_outputs, histVars, auxVars, buildVars,
                    pruneVars >>

\* any other method name: ValueError
ImportancesBadMethod ==
    /\ pc = "built"
    /\ \E m \in Methods \ {"gini", "squared"} : method' = m
    /\ pc' = "importances_error"
    /\ UNCHANGED << tree, has_n_outputs, histVars, auxVars, buildVars,
                    pruneVars, importances >>

----------------------------------------------------------------------------
(***************************************************************************)
(* Tree.predict                                                            *)
(***************************************************************************)
\* the rows predict is called with: the training rows, one row below and
\* one row above them
PredictRows ==
    { [f \in Features |-> XVal(i, f)] : i \in Samples }
        \cup { [f \in Features |-> IF f = 0 THEN 0 ELSE 3],
               [f \in Features |-> IF f = 0 THEN NSamples + 1 ELSE 0] }

\* predict handing threshold and best_error to _predict_tree in each
\* other's place
PredictArgsSwapped(t) ==
    [ children |-> t.children, feature |-> t.feature,
      threshold |-> t.best_error, value |-> t.value ]

\* the arrays Tree.predict hands to _tree._predict_tree
PredictArgs(t) ==
    [ children |-> t.children, feature |-> t.feature,
      threshold |-> t.threshold, value |-> t.value ]

\* _tree._predict_tree: the traversal stops at a row whose children are LEAF
PredictAtLeaf(a, i) == a.children[i + 1] = <<LEAF, LEAF>>

\* _tree._predict_tree: the child the traversal moves to
PredictNext(a, x, i) ==
    IF x[a.feature[i + 1]] <= a.threshold[i + 1]
    THEN a.children[i + 1][1]
    ELSE a.children[i + 1][2]

\* the tree a running predict call works on
PredictedTree ==
    IF pc \in {"predicting_pruned", "predicted_pruned"} THEN out_tree
                                                         ELSE tree

\* predict(X) on the built tree, for one row of X
PredictCall ==
    /\ pc = "built"
    /\ \E x \in PredictRows : x_row' = x
    /\ at_node' = 0
    /\ pc' = "predicting"
    /\ UNCHANGED << tree, has_n_outputs, histVars, buildVars, pruneVars,
                    impVars, storeVars, y_out, pathVars, estVars >>

\* predict(X) on the tree prune returned
PredictPrunedCall ==
    /\ pc = "pruned"
    /\ \E x \in PredictRows : x_row' = x
    /\ at_node' = 0
    /\ pc' = "predicting_pruned"
    /\ UNCHANGED << tree, has_n_outputs, histVars, buildVars, pruneVars,
                    impVars, storeVars, y_out, pathVars, estVars >>

\* one iteration of the traversal
PredictStep ==
    /\ pc \in {"predicting", "predicting_pruned"}
    /\ ~PredictAtLeaf(PredictArgs(PredictedTree), at_node)
    /\ at_node' = PredictNext(PredictArgs(PredictedTree), x_row, at_node)
    /\ UNCHANGED << tree, has_n_outputs, pc, histVars, buildVars, pruneVars,
                    impVars, storeVars, x_row, y_out, pathVars, estVars >>

\* the traversal has reached a leaf: its value is the output
PredictReturn ==
    /\ pc \in {"predicting", "predicting_pruned"}
    /\ PredictAtLeaf(PredictArgs(PredictedTree), at_node)
    /\ y_out' = PredictArgs(PredictedTree).value[at_node + 1]
    /\ pc' = IF pc = "predicting" THEN "predicted" ELSE "predicted_pruned"
    /\ UNCHANGED << tree, has_n_outputs, histVars, buildVars, pruneVars,
                    impVars, storeVars, x_row, at_node, pathVars, estVars >>

----------------------------------------------------------------------------
(***************************************************************************)
(* Direct calls of _add_split_node, _add_leaf and _resize on a Tree.       *)
(***************************************************************************)
\* capacity argument of Tree(...)
StoreCapacities == {1, 2, DefaultCapacity}

\* capacity argument of _resize(capacity)
ResizeCapacities == 0..MaxNodes

\* parent argument of the add operations: a node of the tree, or the -1
\* that build passes for the root
Parents(t) == -1..(t.node_count - 1)

\* after "if node_id >= shape[0]: self._resize()" the row node_id still
\* does not exist (doubling a capacity of 0 gives 0): the first store into
\* row node_id raises IndexError, before anything is written
AddRaises(t) ==
    NeedsResize(t) /\ t.node_count >= Capacity(ResizeDouble(t))

StoreCall(op, parent, is_left_child, raised) ==
    [ op |-> op, parent |-> parent, is_left_child |-> is_left_child,
      raised |-> raised ]

\* _add_split_node(parent, is_left_child, 0, 1, best_error 0, init_error 1,
\* n_samples 2, value 1)
AddSplitNodeCall ==
    /\ pc = "store"
    /\ tree.node_count < MaxNodes
    /\ ~AddRaises(tree)
    /\ \E parent \in Parents(tree), is_left_child \in BOOLEAN :
          /\ tree' = AddSplitNode(tree, parent, is_left_child, 0, 1, 0, 1,
                                  2, 1)
          /\ call' = StoreCall("_add_split_node", parent, is_left_child,
                               FALSE)
    /\ ret' = tree.node_count
    /\ before' = tree
    /\ doubled' = NeedsResize(tree)
    /\ UNCHANGED << has_n_outputs, pc, args, finder, stack, node_info,
                    truncated, pruneVars, impVars, predVars, pathVars,
                    estVars >>

\* _add_leaf(parent, is_left_child, value 1, error 0, n_samples 1)
AddLeafCall ==
    /\ pc = "store"
    /\ tree.node_count < MaxNodes
    /\ ~AddRaises(tree)
    /\ \E parent \in Parents(tree), is_left_child \in BOOLEAN :
          /\ tree' = AddLeaf(tree, parent, is_left_child, 1, 0, 1)
          /\ call' = StoreCall("_add_leaf", parent, is_left_child, FALSE)
    /\ ret' = tree.node_count
    /\ before' = tree
    /\ doubled' = NeedsResize(tree)
    /\ UNCHANGED << has_n_outputs, pc, args, finder, stack, node_info,
                    truncated, pruneVars, impVars, predVars, pathVars,
                    estVars >>

\* an add operation that raises IndexError: nothing is returned and the
\* tree is as before
AddIndexError ==
    /\ pc = "store"
    /\ AddRaises(tree)
    /\ \E op \in {"_add_split_node", "_add_leaf"}, parent \in Parents(tree),
          is_left_child \in BOOLEAN :
          call' = StoreCall(op, parent, is_left_child, TRUE)
    /\ before' = tree
    /\ doubled' = NeedsResize(tree)
    /\ UNCHANGED << tree, has_n_outputs, pc, args, finder, stack, node_info,
                    truncated, pruneVars, impVars, ret, predVars, pathVars,
                    estVars >>

\* _resize(capacity)
ResizeCall ==
    /\ pc = "store"
    /\ \E capacity \in ResizeCapacities :
          /\ tree' = ResizeTo(tree, capacity)
          /\ truncated' = (truncated \/ Truncates(tree, capacity))
          /\ call' = StoreCall("_resize", capacity, FALSE, FALSE)
    /\ before' = tree
    /\ UNCHANGED << has_n_outputs, pc, args, finder, stack, node_info,
                    doubled, pruneVars, impVars, ret, predVars, pathVars,
                    estVars >>

\* _resize()
ResizeNoneCall ==
    /\ pc = "store"
    /\ Capacity(tree) <= MaxNodes
    /\ tree' = ResizeDouble(tree)
    /\ call' = StoreCall("_resize", -1, FALSE, FALSE)
    /\ before' = tree
    /\ UNCHANGED << has_n_outputs, pc, args, finder, stack, node_info,
                    histVars, pruneVars, impVars, ret, predVars, pathVars,
                    estVars >>

----------------------------------------------------------------------------
(***************************************************************************)
(* prune_path: one fold.  The estimator is fitted (the tree is built),     *)
(* then pruned in place for i = max_n_leaves, ..., 2, a score being taken  *)
(* after each pruning.                                                     *)
(***************************************************************************)
\* "for i in range(max_n_leaves, 1, -1)" is entered, on a fitted tree that
\* has at least max_n_leaves leaves
PathStart ==
    /\ pc = "built"
    /\ \E max_n_leaves \in 1..Cardinality(GetLeaves(tree.children)) :
          path_i' = max_n_leaves
    /\ scores' = <<>>
    /\ pc' = "path"
    /\ UNCHANGED << tree, has_n_outputs, histVars, buildVars, pruneVars,
                    impVars, storeVars, predVars, estVars >>

\* fitted.prune(n_leaves=i): BaseDecisionTree.prune calls tree_.prune(i),
\* here up to the loop of pruning_order
PathPrune ==
    /\ pc = "path"
    /\ path_i >= 2
    /\ n_leaves' = path_i
    /\ max_to_prune' = ToRemoveCount(tree, path_i)
    /\ children' = tree.children
    /\ nodes' = <<>>
    /\ caller' = "prune"
    /\ pc' = "ordering"
    /\ UNCHANGED << tree, has_n_outputs, histVars, buildVars, out_tree,
                    out_shared, impVars, storeVars, predVars, pathVars,
                    estVars >>

\* "self.tree_ = self.tree_.prune(n_leaves)" completes: the estimator's
\* tree is now the copy, a Tree on which nobody has set n_outputs; the
\* score is taken and the loop goes on with i - 1
PathScore ==
    /\ pc = "pruned"
    /\ tree' = out_tree
    /\ has_n_outputs' = FALSE
    /\ scores' = Append(scores,
                        [ i |-> path_i,
                          leaves |-> Cardinality(GetLeaves(out_tree.children)) ])
    /\ path_i' = path_i - 1
    /\ pc' = "path"
    /\ UNCHANGED << histVars, buildVars, pruneVars, impVars, storeVars,
                    predVars, estVars >>

\* the loop is over
PathDone ==
    /\ pc = "path"
    /\ path_i < 2
    /\ pc' = "path_done"
    /\ UNCHANGED << tree, has_n_outputs, histVars, buildVars, pruneVars,
                    impVars, auxVars >>

----------------------------------------------------------------------------
(***************************************************************************)
(* Calls on a Tree on which build was never run (node_count = 0).          *)
(***************************************************************************)
\* compute_feature_importances(method) on it: the loop runs over no node
\* and the zero vector is returned
ImportancesUnbuilt ==
    /\ pc = "new"
    /\ \E m \in {"gini", "squared"} :
          /\ method' = m
          /\ importances' = ComputeFeatureImportances(tree, m)
    /\ pc' = "importances_unbuilt"
    /\ UNCHANGED << tree, has_n_outputs, histVars, auxVars, buildVars,
                    pruneVars >>

\* prune(n_leaves) on it, up to the loop of pruning_order
PruneUnbuiltCall ==
    /\ pc = "new"
    /\ \E k \in 1..2 :
          /\ n_leaves' = k
          /\ max_to_prune' = ToRemoveCount(tree, k)
    /\ children' = tree.children
    /\ nodes' = <<>>
    /\ caller' = "prune"
    /\ pc' = "ordering"
    /\ UNCHANGED << tree, has_n_outputs, histVars, auxVars, buildVars,
                    out_tree, out_shared, impVars >>

----------------------------------------------------------------------------
(***************************************************************************)
(* BaseDecisionTree (a classifier): fit, predict, prune and                *)
(* feature_importances_.  tree_ stands for the fitted tree by what it was  *)
(* fitted on; None is a record with fitted = FALSE, 0 or {}.               *)
(***************************************************************************)
\* the constructor parameters fit validates: a valid setting, and settings
\* that fail one check each
ValidParams ==
    [ min_samples_split |-> 2, min_samples_leaf |-> 1, max_depth |-> 3,
      min_density2 |-> 1, max_features |-> 1 ]
EstParams ==
    { ValidParams,
      [ValidParams EXCEPT !.min_samples_split = 0],
      [ValidParams EXCEPT !.min_samples_leaf = 0],
      [ValidParams EXCEPT !.max_depth = 0],
      [ValidParams EXCEPT !.min_density2 = 3],
      [ValidParams EXCEPT !.min_density2 = -1],
      [ValidParams EXCEPT !.max_features = 0],
      [ValidParams EXCEPT !.max_features = 3] }

\* training sets: number of columns of X and the labels in y
Datasets ==
    { [n_features |-> 1, classes |-> {0, 1}],
      [n_features |-> 2, classes |-> {1, 2}] }

\* arguments of fit: the data, whether len(y), sample_mask and
\* sample_weight match the number of samples, and check_input
FitInputs ==
    [ data : Datasets, y_len_ok : BOOLEAN, mask_len_ok : BOOLEAN,
      check_input : BOOLEAN ]

NoTree == [fitted |-> FALSE, n_features |-> 0, classes |-> {}]
NoResult == [tree_ |-> NoTree, classes |-> {}]

\* BaseDecisionTree.__init__
EstNew(params) ==
    [ params |-> params, tree_ |-> NoTree, n_features_ |-> 0,
      n_outputs_ |-> 0, classes_ |-> {}, n_classes_ |-> 0,
      listed |-> FALSE ]

EstCall(op, raised, e, result) ==
    [ op |-> op, raised |-> raised, before |-> e, result |-> result ]

\* check_arrays(X, y): arrays of different lengths are rejected
CheckArraysRejects(in) == in.check_input /\ ~in.y_len_ok

\* fit, from "n_samples, self.n_features_ = X.shape" to the parameter
\* checks: classes_ and n_classes_ are the per-output lists (listed)
FitAssign(e, in) ==
    [ e EXCEPT !.n_features_ = in.data.n_features,
               !.n_outputs_  = 1,
               !.classes_    = in.data.classes,
               !.n_classes_  = Cardinality(in.data.classes),
               !.listed      = TRUE ]

\* the parameter checks of fit: some check raises ValueError
FitRejects(e, in) ==
    \/ ~in.y_len_ok
    \/ e.params.min_samples_split <= 0
    \/ e.params.min_samples_leaf <= 0
    \/ e.params.max_depth <= 0
    \/ e.params.min_density2 < 0 \/ e.params.min_density2 > 2
    \/ ~(0 < e.params.max_features
           /\ e.params.max_features <= e.n_features_)
    \/ ~in.mask_len_ok

\* fit, from "self.tree_ = ..." on: the tree is built and, n_outputs_
\* being 1, classes_ and n_classes_ are unwrapped
FitBuild(e, in) ==
    [ e EXCEPT !.tree_  = [ fitted |-> TRUE,
                            n_features |-> in.data.n_features,
                            classes |-> in.data.classes ],
               !.listed = FALSE ]

\* the estimator as fit(X, y, ...) leaves it
FitEnd(e, in) ==
    IF CheckArraysRejects(in) THEN e
    ELSE IF FitRejects(FitAssign(e, in), in) THEN FitAssign(e, in)
    ELSE FitBuild(FitAssign(e, in), in)

FitRaises(e, in) ==
    CheckArraysRejects(in) \/ FitRejects(FitAssign(e, in), in)

\* predict(X) for an X with n_features columns: whether it raises, and the
\* tree and the classes its result comes from
PredictOutcome(e, n_features) ==
    IF ~e.tree_.fitted \/ e.n_features_ # n_features \/ e.listed
    THEN [raised |-> TRUE, result |-> NoResult]
    ELSE [raised |-> FALSE,
          result |-> [tree_ |-> e.tree_, classes |-> e.classes_]]

\* set_params(...)
EstSetParams ==
    /\ \E params \in EstParams :
          /\ params # est.params
          /\ est' = [est EXCEPT !.params = params]
    /\ est_call' = EstCall("set_params", FALSE, est, NoResult)
    /\ UNCHANGED << tree, has_n_outputs, pc, histVars, buildVars,
                    pruneVars, impVars, storeVars, predVars, pathVars >>

\* fit(X, y, sample_mask, check_input, sample_weight)
EstFit ==
    /\ \E in \in FitInputs :
          /\ est' = FitEnd(est, in)
          /\ est_call' = EstCall("fit", FitRaises(est, in), est, NoResult)
    /\ UNCHANGED << tree, has_n_outputs, pc, histVars, buildVars,
                    pruneVars, impVars, storeVars, predVars, pathVars >>

\* predict(X)
EstPredict ==
    /\ \E n_features \in {1, 2} :
          LET o == PredictOutcome(est, n_features)
          IN  est_call' = EstCall("predict", o.raised, est, o.result)
    /\ UNCHANGED << tree, has_n_outputs, pc, histVars, buildVars,
                    pruneVars, impVars, storeVars, predVars, pathVars,
                    est >>

\* prune(n_leaves) with tree_ None: None has no attribute prune
EstPruneUnfitted ==
    /\ ~est.tree_.fitted
    /\ est_call' = EstCall("prune", TRUE, est, NoResult)
    /\ UNCHANGED << tree, has_n_outputs, pc, histVars, buildVars,
                    pruneVars, impVars, storeVars, predVars, pathVars,
                    est >>

\* feature_importances_
EstImportances ==
    /\ est_call' = EstCall("feature_importances_", ~est.tree_.fitted, est,
                           [tree_ |-> est.tree_, classes |-> {}])
    /\ UNCHANGED << tree, has_n_outputs, pc, histVars, buildVars,
                    pruneVars, impVars, storeVars, predVars, pathVars,
                    est >>

----------------------------------------------------------------------------
\* A Tree as its constructor leaves it.  Tree.__init__ takes n_outputs but
\* does not store it: the object has that attribute only when its creator
\* assigned it afterwards, and both kinds of object are started from.
InitOther ==
    /\ args = NoneVal
    /\ stack = <<>>
    /\ node_info = <<>>
    /\ before = NoneVal
    /\ children = <<>>
    /\ nodes = <<>>
    /\ max_to_prune = 0
    /\ caller = NoneVal
    /\ n_leaves = 0
    /\ out_tree = NoneVal
    /\ out_shared = {}
    /\ importances = NoneVal
    /\ method = NoneVal
    /\ finder = NoneVal
    /\ doubled = FALSE
    /\ truncated = FALSE
    /\ ret = NoneVal
    /\ x_row = NoneVal
    /\ at_node = 0
    /\ y_out = NoneVal
    /\ path_i = 0
    /\ scores = <<>>

Init ==
    /\ tree = NewTree(DefaultCapacity)
    /\ has_n_outputs \in BOOLEAN
    /\ pc = "new"
    /\ call = NoneVal
    /\ est = NoneVal
    /\ est_call = NoneVal
    /\ InitOther

\* building a tree
NextBuild ==
    \/ BuildCall
    \/ PartitionEmpty
    \/ PartitionLeaf
    \/ PartitionSplit

SpecBuild == Init /\ [][NextBuild]_vars

\* building a tree with a fixed find_split
NextDensity ==
    \/ BuildDet
    \/ PartitionEmpty
    \/ PartitionLeaf
    \/ PartitionSplitDet

SpecDensity == Init /\ [][NextDensity]_vars

\* building a tree with a find_split that leaves enough samples on each
\* side; the interpreter keeps running the call until it returns or raises
NextEnd ==
    \/ BuildEnd
    \/ PartitionLeaf
    \/ PartitionSplitEnough

SpecEnd == Init /\ [][NextEnd]_vars /\ WF_vars(NextEnd)

\* a Tree created with some capacity, before any call on it
InitStore ==
    /\ \E capacity \in StoreCapacities : tree = NewTree(capacity)
    /\ has_n_outputs = FALSE
    /\ pc = "store"
    /\ call = StoreCall("__init__", -1, FALSE, FALSE)
    /\ est = NoneVal
    /\ est_call = NoneVal
    /\ InitOther

\* direct calls on the storage, in any order
NextStore ==
    \/ AddSplitNodeCall
    \/ AddLeafCall
    \/ AddIndexError
    \/ ResizeCall
    \/ ResizeNoneCall

SpecStore == InitStore /\ [][NextStore]_vars

\* building a tree, then one of pruning_order, prune and
\* compute_feature_importances on it
Next ==
    \/ BuildPlain
    \/ PartitionEmpty
    \/ PartitionLeaf
    \/ PartitionSplit
    \/ PruningOrderCall
    \/ PruneCall
    \/ OrderEmpty
    \/ OrderSelect
    \/ OrderReturn
    \/ PruneCopyFails
    \/ PruneReturn
    \/ ImportancesCall
    \/ ImportancesBadMethod

Spec == Init /\ [][Next]_vars

\* building a deeper tree, pruning it, then compute_feature_importances on
\* the pruned tree
NextDeep ==
    \/ BuildDeep
    \/ PartitionEmpty
    \/ PartitionLeaf
    \/ PartitionSplit
    \/ PruneCall
    \/ OrderEmpty
    \/ OrderSelect
    \/ OrderReturn
    \/ PruneCopyFails
    \/ PruneReturn
    \/ ImportancesPruned

SpecDeep == Init /\ [][NextDeep]_vars

\* a Tree on which the caller has set the attribute n_outputs
InitWithOutputs ==
    /\ tree = NewTree(DefaultCapacity)
    /\ has_n_outputs = TRUE
    /\ pc = "new"
    /\ call = NoneVal
    /\ est = NoneVal
    /\ est_call = NoneVal
    /\ InitOther

\* building a tree, then predict on it or on the tree pruned from it
NextPredict ==
    \/ BuildPlain
    \/ PartitionEmpty
    \/ PartitionLeaf
    \/ PartitionSplit
    \/ PruneCall
    \/ OrderEmpty
    \/ OrderSelect
    \/ OrderReturn
    \/ PruneReturn
    \/ PredictCall
    \/ PredictPrunedCall
    \/ PredictStep
    \/ PredictReturn

SpecPredict == InitWithOutputs /\ [][NextPredict]_vars

\* one fold of prune_path
NextPath ==
    \/ BuildPlain
    \/ PartitionEmpty
    \/ PartitionLeaf
    \/ PartitionSplit
    \/ PathStart
    \/ PathPrune
    \/ OrderEmpty
    \/ OrderSelect
    \/ OrderReturn
    \/ PruneCopyFails
    \/ PruneReturn
    \/ PathScore
    \/ PathDone

SpecPath == InitWithOutputs /\ [][NextPath]_vars

\* building a tree, pruning it, then pruning the pruned tree
NextTwice ==
    \/ BuildPlain
    \/ PartitionEmpty
    \/ PartitionLeaf
    \/ PartitionSplit
    \/ PruneCall
    \/ OrderEmpty
    \/ OrderSelect
    \/ OrderReturn
    \/ PruneCopyFails
    \/ PruneReturn
    \/ PruneAgainCall

SpecTwice == InitWithOutputs /\ [][NextTwice]_vars

\* a new estimator, and a new Tree on which build is never run
InitEst ==
    /\ tree = NewTree(DefaultCapacity)
    /\ has_n_outputs = FALSE
    /\ pc = "new"
    /\ call = NoneVal
    /\ \E params \in EstParams :
          /\ est = EstNew(params)
          /\ est_call = EstCall("__init__", FALSE, EstNew(params), NoResult)
    /\ InitOther

\* calls on the estimator, fitted or not, and on the unbuilt Tree
NextEst ==
    \/ EstSetParams
    \/ EstFit
    \/ EstPredict
    \/ EstPruneUnfitted
    \/ EstImportances
    \/ ImportancesUnbuilt
    \/ PruneUnbuiltCall
    \/ OrderEmpty

SpecEst == InitEst /\ [][NextEst]_vars

----------------------------------------------------------------------------
(***************************************************************************)
(* Properties of Tree.build (checked under SpecBuild).                     *)
(***************************************************************************)
RECURSIVE SumFun(_, _)
SumFun(f, S) ==
    IF S = {} THEN 0
    ELSE LET x == CHOOSE y \in S : TRUE IN f[x] + SumFun(f, S \ {x})

IsLeaf(t, i) == t.children[i + 1] = <<LEAF, LEAF>>
NodeIds(t) == 0..(t.node_count - 1)

(* C1: after build has returned, every node i < node_count is a leaf with  *)
(* both children LEAF, or has two children that are both indices j with    *)
(* i < j < node_count; no mix, no UNDEFINED child.                         *)
C1_ChildrenWellFormed ==
    pc = "built" =>
        \A i \in NodeIds(tree) :
            LET c == tree.children[i + 1]
            IN  \/ c = <<LEAF, LEAF>>
                \/ \A side \in 1..2 : i < c[side] /\ c[side] < tree.node_count

\* a built tree in which a split node is the right child of a split node
C1_Witness ==
    /\ pc = "built"
    /\ \E i \in NodeIds(tree) :
          /\ ~IsLeaf(tree, i)
          /\ ~IsLeaf(tree, tree.children[i + 1][2])

(* C7: a node is internal only if its depth is < max_depth and its         *)
(* n_samples is >= min_samples_split and >= 2 * min_samples_leaf; no node  *)
(* is deeper than max_depth; a node failing one of the three conditions is *)
(* a leaf for which find_split was not called.                             *)
C7_StoppingRule ==
    pc # "new" =>
        \A i \in NodeIds(tree) :
            LET d  == node_info[i + 1].depth
                n  == tree.n_samples[i + 1]
                ok == /\ d < args.max_depth
                      /\ n >= args.min_samples_split
                      /\ n >= 2 * args.min_samples_leaf
            IN  /\ d <= args.max_depth
                /\ ~IsLeaf(tree, i) => ok
                /\ ~ok => IsLeaf(tree, i) /\ ~node_info[i + 1].consulted

\* a built tree with a split node, and a leaf that only the depth limit
\* kept from being split
C7_Witness ==
    /\ pc = "built"
    /\ \E i \in NodeIds(tree) : ~IsLeaf(tree, i)
    /\ \E i \in NodeIds(tree) :
          /\ IsLeaf(tree, i)
          /\ ~node_info[i + 1].consulted
          /\ node_info[i + 1].depth = args.max_depth
          /\ tree.n_samples[i + 1] >= args.min_samples_split
          /\ tree.n_samples[i + 1] >= 2 * args.min_samples_leaf

(* C8: when build fails on an empty sample mask, construction is all or    *)
(* nothing: node_count is what it was before the call and no node of a     *)
(* partially built tree is visible in the children array.                  *)
C8_AllOrNothing ==
    pc = "build_error" =>
        /\ tree.node_count = before.node_count
        /\ \A j \in 1..Min(Capacity(tree), Capacity(before)) :
              tree.children[j] = before.children[j]

(* C22: in every tree build returns, n_samples of an internal node is the *)
(* sum of n_samples of its two children, every node has n_samples >= 1,    *)
(* the root's n_samples is the number of true entries of the initial       *)
(* sample mask, and n_samples of the leaves sum to the root's n_samples,   *)
(* with or without repacking.  (Checked under SpecBuild.)                  *)
C22_SamplesConserved ==
    pc = "built" =>
        /\ \A i \in NodeIds(tree) :
              /\ tree.n_samples[i + 1] >= 1
              /\ ~IsLeaf(tree, i) =>
                    tree.n_samples[i + 1]
                        = tree.n_samples[tree.children[i + 1][1] + 1]
                          + tree.n_samples[tree.children[i + 1][2] + 1]
        /\ tree.n_samples[1] = CountMask(args.sample_mask)
        /\ SumFun([i \in NodeIds(tree) |->
                      IF IsLeaf(tree, i) THEN tree.n_samples[i + 1] ELSE 0],
                  NodeIds(tree)) = tree.n_samples[1]

\* a tree with a split below a split, built from a mask with a hole with
\* the arrays repacked at a split node
C22_Witness ==
    /\ pc = "built"
    /\ args.min_density2 >= 1
    /\ \E j \in Samples : ~args.sample_mask[j]
    /\ \E i \in NodeIds(tree) :
          /\ ~IsLeaf(tree, i)
          /\ \E side \in 1..2 : ~IsLeaf(tree, tree.children[i + 1][side])

----------------------------------------------------------------------------
(***************************************************************************)
(* The end of build (checked under SpecEnd).                               *)
(***************************************************************************)
\* n_node_samples of the k-th pending call of recursive_partition
PendingCount(st, k) == CountMask(st[k].mask)

(* C21: with a root mask that selects a sample and a find_split that       *)
(* leaves at least min_samples_leaf >= 1 samples on each side of a split   *)
(* it returns, no call of recursive_partition gets an empty mask, each of  *)
(* the two recursive calls of a split node gets fewer samples than the     *)
(* node has, at most 2n - 1 nodes are added for n root samples, and build  *)
(* returns, with max_depth bounded or infinite.                            *)
C21_BuildEnds ==
    /\ [](pc \in {"building", "built"} =>
            /\ \A k \in 1..Len(stack) : PendingCount(stack, k) >= 1
            /\ tree.node_count <= 2 * CountMask(args.sample_mask) - 1)
    /\ [][ (pc = "building" /\ Len(stack') > Len(stack)) =>
              /\ PendingCount(stack', 1) < PendingCount(stack, 1)
              /\ PendingCount(stack', 2) < PendingCount(stack, 1) ]_vars
    /\ (pc = "building") ~> (pc = "built")

\* build with max_depth = np.inf has returned a tree with one leaf per
\* sample: 2n - 1 nodes
C21_Witness ==
    /\ pc = "built"
    /\ args.max_depth = InfDepth
    /\ tree.node_count = 2 * CountMask(args.sample_mask) - 1
    /\ tree.node_count >= 5

----------------------------------------------------------------------------
(***************************************************************************)
(* Properties of the storage during build and prune.                       *)
(***************************************************************************)
Building == pc \in {"building", "built", "build_error"}

(* C18: when build runs on a fresh tree with max_depth <= 10, node_count   *)
(* stays at or below the initial capacity 2^(max_depth+1) - 1 throughout   *)
(* the build, and no add operation of the build calls _resize() to double  *)
(* the arrays.  (Checked under SpecBuild.)                                 *)
C18_CapacitySuffices ==
    (Building /\ args.max_depth <= CompleteTreeDepth) =>
        /\ ~doubled
        /\ tree.node_count <= Pow2(args.max_depth + 1) - 1

\* a complete tree of depth 2 has been built: its last node took the last
\* pre-allocated row
C18_Witness ==
    /\ pc = "built"
    /\ args.max_depth = 2
    /\ tree.node_count = Pow2(args.max_depth + 1) - 1

(* C19: during build on a fresh tree and during prune, _resize is never    *)
(* called with a capacity below node_count, so the final compaction loses  *)
(* no node, and once build has returned the capacity equals node_count.    *)
(* (Checked under Spec.)                                                   *)
C19_NoTruncation ==
    /\ ~truncated
    /\ pc = "built" =>
          /\ Capacity(tree) = tree.node_count
          /\ tree.node_count = Len(node_info)

\* a tree that did not fill its pre-allocated arrays was compacted by
\* build and then pruned
C19_Witness ==
    /\ pc = "pruned"
    /\ tree.node_count < InitCapacity(args.max_depth)
    /\ Capacity(tree) = tree.node_count

----------------------------------------------------------------------------
(***************************************************************************)
(* Properties of the repacking (checked under SpecDensity).                *)
(***************************************************************************)
\* build run to its end with arguments a and the fixed find_split fs, from
\* tree t and pending calls st: whether it returns, and the tree
RECURSIVE RunBuild(_, _, _, _)
RunBuild(a, fs, t, st) ==
    IF st = <<>> THEN [returns |-> TRUE, tree |-> Compactify(t)]
    ELSE LET fr  == Head(st)
             n   == CountMask(fr.mask)
             res == IF MaySplitWith(a, fr.depth, n)
                    THEN DetFinder(fs, Selected(fr.rows, fr.mask))
                    ELSE [ feature |-> -1, threshold |-> 0,
                           best_error |-> ErrorAtLeaf(fr.rows, fr.mask),
                           init_error |-> ErrorAtLeaf(fr.rows, fr.mask) ]
         IN  IF n = 0 THEN [returns |-> FALSE, tree |-> t]
             ELSE RunBuild(a, fs, PartitionTree(t, fr, res),
                           PartitionStackWith(a, t, fr, res, Tail(st)))

\* the same call of build with min_density = 0: the arrays are never
\* repacked
NeverRepacked ==
    RunBuild([args EXCEPT !.min_density2 = 0], finder,
             ResizeTo(before, InitCapacity(args.max_depth)),
             << RootFrame(args) >>)

SameTree(t, u) ==
    /\ t.node_count = u.node_count
    /\ t.children = u.children
    /\ t.feature = u.feature
    /\ t.threshold = u.threshold
    /\ t.n_samples = u.n_samples
    /\ t.init_error = u.init_error
    /\ t.best_error = u.best_error

(* C17: for fixed X, y, sample mask, parameters and a fixed find_split     *)
(* whose result depends only on the selected samples, build gives the same *)
(* tree (node_count, children, feature, threshold, n_samples, init_error,  *)
(* best_error) for every min_density as for min_density = 0, and fails     *)
(* exactly when it fails for min_density = 0.                              *)
C17_DensityNoEffect ==
    /\ pc = "built" =>
          NeverRepacked.returns /\ SameTree(tree, NeverRepacked.tree)
    /\ pc = "build_error" => ~NeverRepacked.returns

\* a tree of at least five nodes built from a mask with a hole, with
\* min_density = 1: the arrays were repacked at every split
C17_Witness ==
    /\ pc = "built"
    /\ args.min_density2 = 2
    /\ \E j \in Samples : ~args.sample_mask[j]
    /\ tree.node_count >= 5

----------------------------------------------------------------------------
(***************************************************************************)
(* Properties of pruning (checked under Spec).                             *)
(***************************************************************************)
LeafCount(t) == Cardinality(GetLeaves(t.children))

(* C2: for a built tree with L leaves and 1 <= k <= L, the tree returned   *)
(* by prune(k) has exactly k leaves.                                       *)
C2_PruneLeafCount ==
    pc = "pruned" => LeafCount(out_tree) = n_leaves

(* C3: prune(L) on a built tree with L leaves returns a tree with the same *)
(* node_count and the same arrays as the original.                         *)
C3_PruneToOwnLeafCount ==
    (pc = "pruned" /\ n_leaves = LeafCount(tree)) => out_tree = tree

PruneStates ==
    {"ordering", "ordered", "order_error", "copying", "prune_error", "pruned"}

IsTerminal(ch, i) ==
    /\ ch[i + 1][1] >= 0 /\ ch[i + 1][2] >= 0
    /\ ch[ch[i + 1][1] + 1] = <<LEAF, LEAF>>
    /\ ch[ch[i + 1][2] + 1] = <<LEAF, LEAF>>

(* C5: the node selected by an iteration of pruning_order is a terminal    *)
(* node of the current working tree with minimal init_error - best_error   *)
(* among the terminal nodes, and the lowest index among those of minimal   *)
(* score.                                                                  *)
C5_WeakestLink ==
    [][ (pc = "ordering" /\ nodes' # nodes) =>
            LET node == nodes'[Len(nodes')]
            IN  /\ IsTerminal(children, node)
                /\ \A m \in 0..(Len(children) - 1) :
                      IsTerminal(children, m) =>
                          \/ Score(tree, node) < Score(tree, m)
                          \/ Score(tree, node) = Score(tree, m) /\ node <= m
      ]_vars

\* the first selection was made among two terminal nodes of equal score,
\* and the one of lower index was taken
C5_Witness ==
    /\ pc \in {"ordering", "ordered"}
    /\ Len(nodes) >= 1
    /\ \E m \in 0..(Len(tree.children) - 1) :
          /\ m > nodes[1]
          /\ IsTerminal(tree.children, m)
          /\ IsTerminal(tree.children, nodes[1])
          /\ Score(tree, m) = Score(tree, nodes[1])

(* C6: pruning_order(m) returns at most m nodes, and fewer than m only if  *)
(* the last one is the root.                                               *)
C6_OrderLength ==
    pc = "ordered" =>
        /\ Len(nodes) <= max_to_prune
        /\ Len(nodes) < max_to_prune => nodes[Len(nodes)] = 0

\* best_error <= init_error at every row, with equality at the leaves
ErrorsOrdered(t) ==
    \A i \in 0..(Capacity(t) - 1) :
        /\ t.best_error[i + 1] <= t.init_error[i + 1]
        /\ IsLeaf(t, i) => t.best_error[i + 1] = t.init_error[i + 1]

(* C9: in the tree returned by build, and in the tree returned by prune(k) *)
(* from it (stated here for k below the leaf count), best_error[i] <=      *)
(* init_error[i] for every node i, with equality for every leaf.           *)
C9_ErrorsOrdered ==
    /\ pc = "built" => ErrorsOrdered(tree)
    /\ (pc = "pruned" /\ n_leaves < LeafCount(tree)) => ErrorsOrdered(out_tree)

----------------------------------------------------------------------------
(***************************************************************************)
(* Properties of compute_feature_importances (checked under Spec).         *)
(***************************************************************************)
(* C10: for a built tree and method "gini" or "squared" the result has     *)
(* n_features non-negative entries; they sum to 1 when some internal node  *)
(* has init_error > best_error and are all zero otherwise; the call does   *)
(* not change the tree.                                                    *)
C10_Importances ==
    /\ [](pc = "importances" =>
            /\ DOMAIN importances.num = 0..(NFeatures - 1)
            /\ importances.den > 0
            /\ \A f \in DOMAIN importances.num : importances.num[f] >= 0
            /\ IF \E i \in NodeIds(tree) :
                     /\ ~IsLeaf(tree, i)
                     /\ tree.init_error[i + 1] > tree.best_error[i + 1]
               THEN SumFun(importances.num, DOMAIN importances.num)
                        = importances.den
               ELSE \A f \in DOMAIN importances.num : importances.num[f] = 0)
    /\ [][pc' \in {"importances", "importances_error"} => tree' = tree]_vars

\* importances with two non-zero entries
C10_Witness ==
    /\ pc = "importances"
    /\ \A f \in DOMAIN importances.num : importances.num[f] > 0
    /\ importances.den > 1

\* the nodes reachable from the root by following children
RECURSIVE ReachableFrom(_, _)
ReachableFrom(t, i) ==
    IF i < 0 \/ i >= Capacity(t) THEN {}
    ELSE {i} \cup ReachableFrom(t, t.children[i + 1][1])
             \cup ReachableFrom(t, t.children[i + 1][2])

\* the internal nodes of a tree: reachable from the root, not leaves
InternalNodes(t) == {i \in ReachableFrom(t, 0) : ~IsLeaf(t, i)}

\* the importances accumulated from exactly the internal nodes
ExpectedImportances(t, m) ==
    LET num == [f \in Features |->
                   SumOver(t, m, {i \in InternalNodes(t) :
                                     t.feature[i + 1] = f})]
        total == SumOver(t, m, InternalNodes(t))
    IN  [ num |-> num, den |-> IF total > 0 THEN total ELSE 1 ]

----------------------------------------------------------------------------
(***************************************************************************)
(* Properties of Tree.predict (checked under SpecPredict).                 *)
(***************************************************************************)
Predicting == {"predicting", "predicting_pruned"}
Predicted == {"predicted", "predicted_pruned"}

(* C13: on every built or pruned tree and for every row, predict starts at *)
(* the root; each step leaves an internal node for its left child when     *)
(* row[feature] <= threshold and for its right child otherwise, and moves  *)
(* to a higher row of the table, so a leaf is reached after finitely many  *)
(* steps; the output is the value stored at that leaf, the root's value    *)
(* when the root is a leaf.                                                *)
C13_Predict ==
    /\ [](pc \in Predicting =>
            /\ at_node \in 0..(Capacity(PredictedTree) - 1)
            /\ \/ IsLeaf(PredictedTree, at_node)
               \/ \A side \in 1..2 :
                     PredictedTree.children[at_node + 1][side] > at_node)
    /\ [](pc \in Predicted =>
            /\ IsLeaf(PredictedTree, at_node)
            /\ y_out = PredictedTree.value[at_node + 1]
            /\ IsLeaf(PredictedTree, 0) => y_out = PredictedTree.value[1])
    /\ [][ (pc \in Predicting /\ at_node' # at_node) =>
              LET t == PredictedTree
                  r == at_node + 1
              IN  /\ ~IsLeaf(t, at_node)
                  /\ at_node' = IF x_row[t.feature[r]] <= t.threshold[r]
                                 THEN t.children[r][1]
                                 ELSE t.children[r][2]
                  /\ at_node < at_node' /\ at_node' < Capacity(t) ]_vars
    /\ [][ (pc \notin Predicting /\ pc' \in Predicting) => at_node' = 0 ]_vars

\* predict on a pruned tree has gone left at the root, where the row's
\* feature equals the threshold, and on to a leaf below the left child
C13_Witness ==
    /\ pc = "predicted_pruned"
    /\ out_tree.node_count < tree.node_count
    /\ x_row[out_tree.feature[1]] = out_tree.threshold[1]
    /\ ~IsLeaf(out_tree, 0)
    /\ ~IsLeaf(out_tree, out_tree.children[1][1])
    /\ at_node > out_tree.children[1][1]

----------------------------------------------------------------------------
----------------------------------------------------------------------------
(***************************************************************************)
(* Properties of the estimator and of the unbuilt Tree (checked under      *)
(* SpecEst).                                                               *)
(***************************************************************************)
Queries == {"predict", "prune", "feature_importances_"}

(* C14: prediction, pruning and the importance query on an unfitted model  *)
(* fail with an error instead of returning a result and leave the model    *)
(* unchanged: on an estimator whose tree_ is None, and on a Tree with zero *)
(* nodes (no call on it returns, and the Tree stays as constructed).       *)
C14_UnfittedFails ==
    /\ (est_call.op \in Queries /\ ~est_call.before.tree_.fitted) =>
          est_call.raised /\ est = est_call.before
    /\ tree.node_count = 0 =>
          /\ pc \in {"new", "ordering", "order_error"}
          /\ tree = NewTree(DefaultCapacity)

(* C16: a fit that fails validation on a previously fitted estimator       *)
(* leaves tree_, n_features_, n_outputs_, classes_ and n_classes_ as they  *)
(* were, and a later predict behaves as before the failed fit.             *)
C16_FailedFitKeepsState ==
    (est_call.op = "fit" /\ est_call.raised /\ est_call.before.tree_.fitted)
        => /\ est = est_call.before
           /\ \A n_features \in {1, 2} :
                 PredictOutcome(est, n_features)
                     = PredictOutcome(est_call.before, n_features)

----------------------------------------------------------------------------
(***************************************************************************)
(* Properties of the storage operations (checked under SpecStore).         *)
(***************************************************************************)
AddOps == {"_add_split_node", "_add_leaf"}

\* the fields of the rows in use before the call are what they were
RowsKept(old, new) ==
    \A j \in 1..old.node_count :
        /\ new.feature[j] = old.feature[j]
        /\ new.threshold[j] = old.threshold[j]
        /\ new.value[j] = old.value[j]
        /\ new.best_error[j] = old.best_error[j]
        /\ new.init_error[j] = old.init_error[j]
        /\ new.n_samples[j] = old.n_samples[j]
        /\ j # call.parent + 1 => new.children[j] = old.children[j]

(* C12: on a Tree created with capacity >= 1, after any sequence of        *)
(* _add_split_node, _add_leaf and _resize calls node_count <= capacity;    *)
(* every add call returns the node_count of before the call, increases     *)
(* node_count by exactly 1, and doubles the capacity, keeping the existing *)
(* entries, exactly when the table was full.                               *)
C12_AddAndResize ==
    /\ tree.node_count <= Capacity(tree)
    /\ call.op \in AddOps =>
          /\ ~call.raised
          /\ ret = before.node_count
          /\ tree.node_count = before.node_count + 1
          /\ RowsKept(before, tree)
          /\ IF before.node_count = Capacity(before)
             THEN Capacity(tree) = 2 * Capacity(before)
             ELSE Capacity(tree) = Capacity(before)

(* C20: _add_leaf called with parent = -1 ignores the parent link: the     *)
(* only children entries it writes are those of the new node; the children *)
(* of every other slot, used or unused, are as before the call.            *)
C20_RootLeafLink ==
    (call.op = "_add_leaf" /\ ~call.raised /\ call.parent = -1) =>
        \A j \in 1..Capacity(tree) :
            j # ret + 1 =>
                tree.children[j] = ResizeArr(before.children, Capacity(tree),
                                             <<0, 0>>)[j]

(* C11: compute_feature_importances on a tree returned by prune            *)
(* accumulates exactly the contributions of the internal nodes still       *)
(* reachable from the root: nodes removed by pruning and nodes collapsed   *)
(* to leaves add nothing to the result.                                    *)
C11_PrunedImportances ==
    pc = "importances_pruned" =>
        importances = ExpectedImportances(out_tree, method)

----------------------------------------------------------------------------
(***************************************************************************)
(* The shape of pruned trees (checked under Spec).                         *)
(***************************************************************************)
\* the first m entries of a sequence
Prefix(seq, m) == SubSeq(seq, 1, m)

\* a tree of k leaves stored with holes: 2k - 1 nodes reachable from the
\* root, each a leaf or the parent of two reachable nodes, every other row
\* UNDEFINED
WellFormedPruned(t, k) ==
    LET R == ReachableFrom(t, 0)
    IN  /\ Cardinality(R) = t.node_count
        /\ t.node_count = 2 * k - 1
        /\ \A i \in R :
              \/ t.children[i + 1] = <<LEAF, LEAF>>
              \/ t.children[i + 1][1] \in R /\ t.children[i + 1][2] \in R
        /\ \A i \in R, side \in 1..2 : t.children[i + 1][side] # UNDEFINED
        /\ \A i \in 0..(Capacity(t) - 1) :
              i \notin R => t.children[i + 1] = <<UNDEFINED, UNDEFINED>>

(* C23: for a built tree with L leaves and 1 <= k < L, after each collapse *)
(* step of prune(k), and so in the tree it returns, the nodes reachable    *)
(* from the root number exactly node_count (2k - 1 at the end), every      *)
(* reachable node has both children LEAF or two reachable children, no     *)
(* reachable node has an UNDEFINED child, and every unreachable row has    *)
(* both children UNDEFINED.                                                *)
C23_PrunedWellFormed ==
    (pc = "pruned" /\ n_leaves < LeafCount(tree)) =>
        /\ WellFormedPruned(out_tree, n_leaves)
        /\ \A m \in 1..Len(nodes) :
              WellFormedPruned(RemoveBranches(Copy(tree), Prefix(nodes, m)),
                               LeafCount(tree) - m)

\* prune has collapsed the three internal nodes of a tree of four leaves,
\* the root last
C23_Witness ==
    /\ pc = "pruned"
    /\ LeafCount(tree) = 4
    /\ n_leaves = 1
    /\ Len(nodes) = 3
    /\ nodes[3] = 0
    /\ out_tree.node_count = 1

----------------------------------------------------------------------------
(***************************************************************************)
(* Pruning a pruned tree (checked under SpecTwice).                        *)
(***************************************************************************)
\* pruning_order(m) on tree t, run to its return from the working copy ch
\* and the nodes selected so far
RECURSIVE OrderLoop(_, _, _, _)
OrderLoop(t, ch, selected, m) ==
    LET node == NextToPrune(t, ch)
        sel  == Append(selected, node)
    IN  IF OrderDone(sel, m) THEN sel
        ELSE OrderLoop(t, Collapse(ch, node), sel, m)

\* what t.prune(k) returns
PruneOf(t, k) ==
    RemoveBranches(Copy(t),
                   OrderLoop(t, t.children, <<>>, ToRemoveCount(t, k)))

\* the running or finished prune is the one called on a pruned tree; the
\* tree that was built is then in before
PrunedAgain == pc \in PruneStates /\ before.node_count > 0

(* C24: for a built tree T with L leaves and 1 <= j <= k < L, the call     *)
(* T.prune(k).prune(j) returns, and the tree it returns has the node_count *)
(* and the children array of T.prune(j).                                   *)
C24_PruneComposes ==
    PrunedAgain =>
        /\ pc \notin {"order_error", "prune_error"}
        /\ pc = "pruned" =>
              /\ out_tree.node_count = PruneOf(before, n_leaves).node_count
              /\ out_tree.children = PruneOf(before, n_leaves).children

----------------------------------------------------------------------------
(***************************************************************************)
(* The order of pruning (checked under Spec).                              *)
(***************************************************************************)
\* the internal nodes below node i in tree t
InternalBelow(t, i) == (ReachableFrom(t, i) \ {i}) \cap InternalNodes(t)

(* C25: the sequence pruning_order returns on a built tree contains only   *)
(* internal nodes of the tree, no node twice, and every node only after    *)
(* all the internal nodes of its subtree; when max_to_prune is left at its *)
(* default (node_count) it lists every internal node and ends with the     *)
(* root.                                                                   *)
C25_OrderBottomUp ==
    pc \in {"ordered", "copying"} =>
        /\ \A a \in 1..Len(nodes) :
              /\ nodes[a] \in InternalNodes(tree)
              /\ \A b \in 1..Len(nodes) : nodes[a] = nodes[b] => a = b
              /\ \A d \in InternalBelow(tree, nodes[a]) :
                    \E b \in 1..(a - 1) : nodes[b] = d
        /\ max_to_prune = tree.node_count =>
              /\ {nodes[a] : a \in 1..Len(nodes)} = InternalNodes(tree)
              /\ nodes[Len(nodes)] = 0

\* pruning_order with the default max_to_prune has returned the three
\* internal nodes of a tree of four leaves
C25_Witness ==
    /\ pc = "ordered"
    /\ max_to_prune = tree.node_count
    /\ Len(nodes) = 3
    /\ nodes[3] = 0

----------------------------------------------------------------------------
(***************************************************************************)
(* Predictions of pruned trees (checked under SpecPredict).                *)
(***************************************************************************)
\* the nodes row x visits in tree t from node i down to a leaf
RECURSIVE PathFrom(_, _, _)
PathFrom(t, x, i) ==
    IF PredictAtLeaf(PredictArgs(t), i) THEN {i}
    ELSE {i} \cup PathFrom(t, x, PredictNext(PredictArgs(t), x, i))

\* the leaf row x reaches in tree t
LeafFor(t, x) == CHOOSE i \in PathFrom(t, x, 0) : IsLeaf(t, i)

(* C26: for a built tree T with L leaves, 1 <= k < L and every row x, the  *)
(* node whose value T.prune(k).predict returns for x is on the path x      *)
(* follows in T from the root to a leaf, and a row whose leaf in T is not  *)
(* below a collapsed node gets the prediction T gives it.                  *)
C26_PruneShortensPaths ==
    (pc = "predicted_pruned" /\ n_leaves < LeafCount(tree)) =>
        /\ at_node \in PathFrom(tree, x_row, 0)
        /\ y_out = out_tree.value[at_node + 1]
        /\ (\A a \in 1..Len(nodes) : nodes[a] \notin PathFrom(tree, x_row, 0))
              => /\ at_node = LeafFor(tree, x_row)
                 /\ y_out = tree.value[LeafFor(tree, x_row) + 1]

\* prune(2) of a tree of four leaves: the row stops at a collapsed node,
\* above the leaf it reaches in the tree that was built
C26_Witness ==
    /\ pc = "predicted_pruned"
    /\ LeafCount(tree) = 4
    /\ n_leaves = 2
    /\ at_node # LeafFor(tree, x_row)
    /\ at_node \in {nodes[a] : a \in 1..Len(nodes)}

====
